---- MODULE Spec2Model ----
(***************************************************************************)
(* Model of scripts/optimize-data.py: main() and optimize_csv_data().      *)
(* One process invocation is a linear pipeline (read, mkdir, table CSV,    *)
(* detail CSV, two gzip copies, two Parquet files, manifest, statistics)   *)
(* wrapped by main()'s existence check and catch-all handler.  The file    *)
(* system outlives an invocation, so a behaviour may contain several       *)
(* invocations on the same arguments.                                      *)
(*                                                                         *)
(* The input is a CSV whose records have as many fields as its header, so  *)
(* pd.read_csv (called without index_col) gives the frame the default      *)
(* index 0..N-1.                                                           *)
(***************************************************************************)
EXTENDS Integers, Sequences, FiniteSets, TLC

\* ------------------------------------------------------------------ bounds
MaxRows == 4
MaxCap == 4
MaxRuns == 2

\* ------------------------------------------------------- program constants
TABLE_COLUMNS ==
  << "prompt", "model", "type", "impact", "unexpected_behavior",
     "property_description_coarse_cluster_label",
     "property_description_fine_cluster_label",
     "property_description", "category", "evidence" >>

DETAIL_COLUMNS ==
  << "model_1_response", "model_2_response", "model_1_name", "model_2_name",
     "differences", "parsed_differences", "parse_error", "reason",
     "property_description_coarse_cluster_id",
     "property_description_fine_cluster_id" >>

PropertyDescriptionLimit == 500
EvidenceLimit == 300
SampleSeed == 42

TableFile == "table_data.csv"
DetailFile == "detail_data.csv"
TableGz == "table_data.csv.gz"
DetailGz == "detail_data.csv.gz"
TableParquet == "table_data.parquet"
DetailParquet == "detail_data.parquet"
IndexFile == "data_index.json"

FileNames ==
  { TableFile, DetailFile, TableGz, DetailGz, TableParquet, DetailParquet,
    IndexFile }

\* ------------------------------------------------------------------ values
Range(s) == { s[i] : i \in 1..Len(s) }
Min(a, b) == IF a < b THEN a ELSE b

\* A cell of a frame: a missing value (NaN) or a text.
NaN == [na |-> TRUE, str |-> << >>]
Text(s) == [na |-> FALSE, str |-> s]

Alphabet == << "a", "b", "c" >>
MakeString(len, salt) == [i \in 1..len |-> Alphabet[((i + salt) % 3) + 1]]

\* JSON null or a JSON list
JsonNull == [null |-> TRUE, list |-> << >>]
JsonList(l) == [null |-> FALSE, list |-> l]

EmptyFrame == [columns |-> << >>, index |-> << >>, data |-> << >>]

\* len(frame)
FrameLen(frame) == Len(frame.index)

\* frame[cols]: the listed columns, same rows, same index
Project(frame, cols) ==
  [columns |-> cols,
   index |-> frame.index,
   data |-> [i \in 1..Len(frame.data) |->
               [c \in Range(cols) |-> frame.data[i][c]]]]

\* frame[name] = values (a new column is appended, an old one replaced)
SetColumn(frame, name, values) ==
  [columns |-> IF name \in Range(frame.columns) THEN frame.columns
               ELSE Append(frame.columns, name),
   index |-> frame.index,
   data |-> [i \in 1..Len(frame.data) |->
               [c \in Range(frame.columns) \cup {name} |->
                  IF c = name THEN values[i] ELSE frame.data[i][c]]]]

\* Series.astype(str) of one cell: NaN becomes the text "nan"
AsTypeStr(cell) == IF cell.na THEN Text(<< "n", "a", "n" >>) ELSE cell

StrSliceInclusive(cell, limit) ==
  IF cell.na THEN cell
  ELSE Text(SubSeq(cell.str, 1, Min(Len(cell.str), limit + 1)))

\* Series.str[:limit] of one cell
StrSlice(cell, limit) ==
  IF cell.na THEN cell
  ELSE Text(SubSeq(cell.str, 1, Min(Len(cell.str), limit)))

\* frame[col] = frame[col].astype(str).str[:limit]
TruncateColumn(frame, col, limit) ==
  SetColumn(frame, col,
            [i \in 1..Len(frame.data) |->
               StrSlice(AsTypeStr(frame.data[i][col]), limit)])

\* numpy.random.RandomState(seed).permutation(n): the Mersenne Twister
\* seeded by init_genrand(seed) driving the Fisher-Yates shuffle of
\* arange(n); tabulated for the seeds and lengths the model uses.
RandomStatePermutation(seed, n) ==
  CASE seed = 42 ->
         (CASE n = 0 -> << >>
            [] n = 1 -> << 0 >>
            [] n = 2 -> << 1, 0 >>
            [] n = 3 -> << 0, 1, 2 >>
            [] n = 4 -> << 1, 3, 0, 2 >>
            [] n = 5 -> << 1, 4, 2, 0, 3 >>
            [] n = 6 -> << 0, 1, 5, 2, 4, 3 >>)
    [] seed = 0 ->
         (CASE n = 0 -> << >>
            [] n = 1 -> << 0 >>
            [] n = 2 -> << 1, 0 >>
            [] n = 3 -> << 2, 1, 0 >>
            [] n = 4 -> << 2, 3, 1, 0 >>
            [] n = 5 -> << 2, 0, 1, 3, 4 >>
            [] n = 6 -> << 5, 2, 1, 3, 0, 4 >>)
    [] seed = 1 ->
         (CASE n = 0 -> << >>
            [] n = 1 -> << 0 >>
            [] n = 2 -> << 0, 1 >>
            [] n = 3 -> << 0, 2, 1 >>
            [] n = 4 -> << 3, 2, 0, 1 >>
            [] n = 5 -> << 2, 1, 4, 0, 3 >>
            [] n = 6 -> << 2, 1, 4, 0, 3, 5 >>)


\* DataFrame.sample(n = n, random_state = seed): the rows at the first n
\* positions of the seeded permutation of 0..len-1, in that order; a
\* negative n raises ValueError (see Sample's caller).
Sample(frame, n, seed) ==
  LET perm == RandomStatePermutation(seed, FrameLen(frame))
  IN [columns |-> frame.columns,
      index |-> [k \in 1..n |-> frame.index[perm[k] + 1]],
      data |-> [k \in 1..n |-> frame.data[perm[k] + 1]]]

\* DataFrame.to_csv(file, index = False): the header and one record per
\* row, fields in column order; the index is not written.
ToCsv(frame) ==
  [header |-> frame.columns,
   records |-> [i \in 1..Len(frame.data) |->
                  [k \in 1..Len(frame.columns) |->
                     frame.data[i][frame.columns[k]]]]]

\* gzip.open(dst, 'wb').writelines(open(src, 'rb'))
Gzip(body) == [codec |-> "gzip", payload |-> body]

\* DataFrame.to_parquet(file, index = False)
ToParquet(frame) == [codec |-> "parquet", payload |-> ToCsv(frame)]

\* ------------------------------------------------------------- file system
Absent == [state |-> "absent", body |-> << >>]
Stale == [state |-> "stale", body |-> << >>]
Partial == [state |-> "partial", body |-> << >>]
Written(body) == [state |-> "written", body |-> body]

NoFiles == [f \in FileNames |-> Absent]
OldRun == [f \in FileNames |->
             IF f \in {TableFile, IndexFile} THEN Stale ELSE Absent]

\* --------------------------------------------------------------- the input
CsvColumnChoices ==
  { << "prompt", "property_description", "evidence", "model_1_response",
       "note" >>,
    << "prompt", "model_1_response", "note" >> }

\* The two bounded text columns of record i (zero-based) under a rotation.
LongCell(limit, salt) == Text(MakeString(limit + 1, salt))
ExactCell(limit, salt) == Text(MakeString(limit, salt))
ShortCell(salt) == Text(MakeString(2, salt))

TemplateCell(col, k) ==
  LET limit == IF col = "evidence" THEN EvidenceLimit
               ELSE PropertyDescriptionLimit
  IN CASE k = 0 -> LongCell(limit, 0)
       [] k = 1 -> IF col = "evidence" THEN ExactCell(limit, 1) ELSE NaN
       [] k = 2 -> IF col = "evidence" THEN NaN ELSE ExactCell(limit, 2)
       [] k = 3 -> ShortCell(1)

CsvCell(col, i, offset) ==
  IF col \in {"property_description", "evidence"}
  THEN TemplateCell(col, (i + offset) % 4)
  ELSE IF col = "prompt" THEN Text(MakeString(i + 1, 0))
  ELSE Text(MakeString(1, i))

CsvFile(cols, n, offset) ==
  [exists |-> TRUE,
   columns |-> cols,
   records |-> [i \in 1..n |->
                  [c \in Range(cols) |-> CsvCell(c, i - 1, offset)]]]

MissingFile == [exists |-> FALSE, columns |-> << >>, records |-> << >>]

\* pd.read_csv(input_file): the columns of the header and the default
\* index 0..N-1
ReadCsv(file) ==
  [columns |-> file.columns,
   index |-> [i \in 1..Len(file.records) |-> i - 1],
   data |-> file.records]

Seeds == {0, 1}

VARIABLES
  input_file,       \* the file at the input path (or its absence)
  max_detail_rows,  \* --max-detail-rows
  pyarrow,          \* whether a Parquet engine can be imported
  output_dir,       \* "dir", "absent" (parent exists), "orphan" (parent
                    \* missing) or "file" (the path names a regular file)
  files,            \* the files under output_dir
  entropy,          \* the seed the process-global generator starts from
  pc,               \* the position of the current invocation
  called,           \* optimize_csv_data was called in this invocation
  df, table_df, detail_df,
  index_mapping,    \* the manifest dictionary
  result,           \* the value optimize_csv_data returned
  written,          \* names of the files this invocation wrote, in order
  failedAt,         \* the step whose exception reached main(), or "none"
  skipped,          \* the Parquet step hit ImportError
  exitCode,         \* main()'s return value, -1 while running
  history           \* outcomes of the finished invocations

vars ==
  << input_file, max_detail_rows, pyarrow, output_dir, files, entropy, pc,
     called, df, table_df, detail_df, index_mapping, result, written,
     failedAt, skipped, exitCode, history >>

inputs == << input_file, max_detail_rows, pyarrow >>

NoManifest ==
  [total_rows |-> -1, table_rows |-> -1, detail_rows |-> -1,
   available_columns |-> [table |-> << >>, detail |-> {}],
   row_id_mapping |-> JsonNull]

NoResult == [k \in {} |-> ""]

Fresh ==
  /\ pc = "main"
  /\ called = FALSE
  /\ df = EmptyFrame
  /\ table_df = EmptyFrame
  /\ detail_df = EmptyFrame
  /\ index_mapping = NoManifest
  /\ result = NoResult
  /\ written = << >>
  /\ failedAt = "none"
  /\ skipped = FALSE
  /\ exitCode = -1

Init ==
  /\ \/ input_file = MissingFile
     \/ \E cols \in CsvColumnChoices, n \in 0..MaxRows, offset \in 0..1 :
          /\ (n = 0 => offset = 0)
          /\ input_file = CsvFile(cols, n, offset)
  /\ max_detail_rows \in -1..MaxCap
  /\ pyarrow \in BOOLEAN
  /\ \/ output_dir \in {"absent", "orphan", "file"} /\ files = NoFiles
     \/ output_dir = "dir" /\ files \in {NoFiles, OldRun}
  /\ entropy \in Seeds
  /\ history = << >>
  /\ Fresh


\* ----------------------------------------------------------------- helpers
\* frame['row_id'].tolist()
RowIds(frame) == [i \in 1..Len(frame.data) |-> frame.data[i]["row_id"]]

FailedOutcome == [exit |-> 1, row_ids |-> << >>, row_id_mapping |-> JsonNull]

AbortedSilently(step) ==
  /\ pc' = "exit"
  /\ exitCode' = 0
  /\ failedAt' = step
  /\ history' = Append(history, FailedOutcome)

\* An exception leaves optimize_csv_data and reaches main()'s handler,
\* which prints it and returns 1.
Aborted(step) ==
  /\ pc' = "exit"
  /\ exitCode' = 1
  /\ failedAt' = step
  /\ history' = Append(history, FailedOutcome)

Continue(next) ==
  /\ pc' = next
  /\ UNCHANGED << exitCode, failedAt, history >>

WriteFileRollback(name, body, step, next) ==
  \/ /\ files' = [files EXCEPT ![name] = Written(body)]
     /\ written' = Append(written, name)
     /\ Continue(next)
  \/ /\ files' = [f \in FileNames |->
                    IF f \in Range(written) \cup {name} THEN Absent
                    ELSE files[f]]
     /\ written' = written
     /\ Aborted(step)

\* A write that succeeds replaces the file; one that raises leaves the old
\* file or a truncated one (the writes are not atomic).
WriteFile(name, body, step, next) ==
  \/ /\ files' = [files EXCEPT ![name] = Written(body)]
     /\ written' = Append(written, name)
     /\ Continue(next)
  \/ /\ files' \in {files, [files EXCEPT ![name] = Partial]}
     /\ written' = written
     /\ Aborted(step)

\* ------------------------------------------------------------------ main()
InputMissingNever(file) == FALSE

\* Line 169: not Path(args.input_file).exists()
InputMissing(file) == ~file.exists

\* Lines 167-174: parse the arguments, check the input path, call
\* optimize_csv_data.
Main ==
  /\ pc = "main"
  /\ IF InputMissing(input_file)
     THEN /\ pc' = "exit"
          /\ exitCode' = 1
          /\ history' = Append(history, FailedOutcome)
          /\ UNCHANGED called
     ELSE /\ pc' = "read"
          /\ called' = TRUE
          /\ UNCHANGED << exitCode, history >>
  /\ UNCHANGED << inputs, output_dir, files, entropy, df, table_df,
                  detail_df, index_mapping, result, written, failedAt,
                  skipped >>

\* ------------------------------------------------------ optimize_csv_data
\* Line 57: read the whole dataset, or raise on an unreadable file.
Read ==
  /\ pc = "read"
  /\ \/ /\ input_file.exists
        /\ df' = ReadCsv(input_file)
        /\ Continue("mkdir")
     \/ /\ df' = df
        /\ Aborted("read")
  /\ UNCHANGED << inputs, output_dir, files, entropy, called, table_df,
                  detail_df, index_mapping, result, written, skipped >>

\* Path.mkdir(exist_ok = True), parents = False
MkdirResult(dir) ==
  CASE dir = "dir" -> "dir"
    [] dir = "absent" -> "dir"
    [] dir = "orphan" -> "FileNotFoundError"
    [] dir = "file" -> "FileExistsError"

\* Lines 61-62: create the output directory.
Mkdir ==
  /\ pc = "mkdir"
  /\ IF MkdirResult(output_dir) = "dir"
     THEN /\ output_dir' = "dir"
          /\ Continue("table")
     ELSE /\ output_dir' = output_dir
          /\ Aborted("mkdir")
  /\ UNCHANGED << inputs, files, entropy, called, df, table_df, detail_df,
                  index_mapping, result, written, skipped >>

\* Line 66 (and 85): the allow-listed columns the dataset has, in
\* allow-list order
AvailableCols(allow, frame) ==
  SelectSeq(allow, LAMBDA c : c \in Range(frame.columns))

BuildTableOneBased(frame) ==
  LET projected == Project(frame, AvailableCols(TABLE_COLUMNS, frame))
      with_id == SetColumn(projected, "row_id",
                           [i \in 1..FrameLen(frame) |-> i])
      t1 == IF "property_description" \in Range(with_id.columns)
            THEN TruncateColumn(with_id, "property_description",
                                PropertyDescriptionLimit)
            ELSE with_id
      t2 == IF "evidence" \in Range(t1.columns)
            THEN TruncateColumn(t1, "evidence", EvidenceLimit)
            ELSE t1
  IN t2

\* Lines 66-76: the table projection with row_id and the two truncations.
BuildTable(frame) ==
  LET projected == Project(frame, AvailableCols(TABLE_COLUMNS, frame))
      with_id == SetColumn(projected, "row_id", frame.index)
      t1 == IF "property_description" \in Range(with_id.columns)
            THEN TruncateColumn(with_id, "property_description",
                                PropertyDescriptionLimit)
            ELSE with_id
      t2 == IF "evidence" \in Range(t1.columns)
            THEN TruncateColumn(t1, "evidence", EvidenceLimit)
            ELSE t1
  IN t2

\* Lines 64-81: build the table projection and save it.
WriteTable ==
  /\ pc = "table"
  /\ table_df' = BuildTable(df)
  /\ WriteFile(TableFile, ToCsv(BuildTable(df)), "table", "detail")
  /\ UNCHANGED << inputs, output_dir, entropy, called, df, detail_df,
                  index_mapping, result, skipped >>

\* Line 85
AllDetailCols(frame) ==
  AvailableCols(TABLE_COLUMNS, frame) \o AvailableCols(DETAIL_COLUMNS, frame)

\* Line 89: whether the detail rows are sampled
NeedsSample(frame, cap) == FrameLen(frame) > cap

BuildDetailUnseeded(frame, cap) ==
  LET projected == Project(frame, AllDetailCols(frame))
      limited == IF NeedsSample(projected, cap)
                 THEN Sample(projected, cap, entropy)
                 ELSE projected
  IN SetColumn(limited, "row_id", limited.index)

BuildDetailRenumbered(frame, cap) ==
  LET projected == Project(frame, AllDetailCols(frame))
      limited == IF NeedsSample(projected, cap)
                 THEN Sample(projected, cap, SampleSeed)
                 ELSE projected
  IN SetColumn(limited, "row_id", [i \in 1..FrameLen(limited) |-> i - 1])

\* Lines 85-93 when sample() does not raise
BuildDetail(frame, cap) ==
  LET projected == Project(frame, AllDetailCols(frame))
      limited == IF NeedsSample(projected, cap)
                 THEN Sample(projected, cap, SampleSeed)
                 ELSE projected
  IN SetColumn(limited, "row_id", limited.index)

\* Lines 83-98: build the detail projection, sample it, save it.
WriteDetail ==
  /\ pc = "detail"
  /\ IF NeedsSample(df, max_detail_rows) /\ max_detail_rows < 0
     THEN \* sample(n < 0) raises ValueError
          /\ detail_df' = Project(df, AllDetailCols(df))
          /\ Aborted("detail")
          /\ UNCHANGED << files, written >>
     ELSE /\ detail_df' = BuildDetail(df, max_detail_rows)
          /\ WriteFile(DetailFile, ToCsv(BuildDetail(df, max_detail_rows)),
                       "detail", "table_gz")
  /\ UNCHANGED << inputs, output_dir, entropy, called, df, table_df,
                  index_mapping, result, skipped >>

\* Lines 104-107: gzip copy of the table file.
GzipTable ==
  /\ pc = "table_gz"
  /\ WriteFile(TableGz, Gzip(files[TableFile].body), "table_gz", "detail_gz")
  /\ UNCHANGED << inputs, output_dir, entropy, called, df, table_df,
                  detail_df, index_mapping, result, skipped >>

\* Lines 110-113: gzip copy of the detail file.
GzipDetail ==
  /\ pc = "detail_gz"
  /\ WriteFile(DetailGz, Gzip(files[DetailFile].body), "detail_gz",
               "table_parquet")
  /\ UNCHANGED << inputs, output_dir, entropy, called, df, table_df,
                  detail_df, index_mapping, result, skipped >>

ParquetHandlerNone(exception) == "propagate"

\* Lines 116-122: only ImportError is handled
ParquetHandler(exception) ==
  IF exception = "ImportError" THEN "skip" ELSE "propagate"

\* What to_parquet can do: write the file, fail to import an engine, or
\* fail while encoding or writing.
ToParquetOutcomes == IF pyarrow THEN {"ok", "OSError"} ELSE {"ImportError"}

\* One to_parquet call inside the try block of lines 116-122.
ParquetWrite(name, frame, step, next) ==
  \E outcome \in ToParquetOutcomes :
    IF outcome = "ok"
    THEN /\ files' = [files EXCEPT ![name] = Written(ToParquet(frame))]
         /\ written' = Append(written, name)
         /\ skipped' = skipped
         /\ Continue(next)
    ELSE /\ files' \in IF outcome = "ImportError" THEN {files}
                       ELSE {files, [files EXCEPT ![name] = Partial]}
         /\ written' = written
         /\ IF ParquetHandler(outcome) = "skip"
            THEN /\ skipped' = TRUE
                 /\ Continue("manifest")
            ELSE /\ skipped' = skipped
                 /\ Aborted(step)

\* Line 118: the table Parquet file.
ParquetTable ==
  /\ pc = "table_parquet"
  /\ ParquetWrite(TableParquet, table_df, "table_parquet", "detail_parquet")
  /\ UNCHANGED << inputs, output_dir, entropy, called, df, table_df,
                  detail_df, index_mapping, result >>

\* Line 119: the detail Parquet file.
ParquetDetail ==
  /\ pc = "detail_parquet"
  /\ ParquetWrite(DetailParquet, detail_df, "detail_parquet", "manifest")
  /\ UNCHANGED << inputs, output_dir, entropy, called, df, table_df,
                  detail_df, index_mapping, result >>

IndexMappingLe(frame, table, detail) ==
  [total_rows |-> FrameLen(frame),
   table_rows |-> FrameLen(table),
   detail_rows |-> FrameLen(detail),
   available_columns |->
     [table |-> AvailableCols(TABLE_COLUMNS, frame),
      detail |-> Range(AllDetailCols(frame))],
   row_id_mapping |->
     IF FrameLen(detail) <= FrameLen(frame)
     THEN JsonList(RowIds(detail))
     ELSE JsonNull]

\* Lines 126-135
IndexMapping(frame, table, detail) ==
  [total_rows |-> FrameLen(frame),
   table_rows |-> FrameLen(table),
   detail_rows |-> FrameLen(detail),
   available_columns |->
     [table |-> AvailableCols(TABLE_COLUMNS, frame),
      detail |-> Range(AllDetailCols(frame))],
   row_id_mapping |->
     IF FrameLen(detail) < FrameLen(frame)
     THEN JsonList(RowIds(detail))
     ELSE JsonNull]

\* Lines 124-139: build the manifest and save it.
WriteManifest ==
  /\ pc = "manifest"
  /\ index_mapping' = IndexMapping(df, table_df, detail_df)
  /\ WriteFile(IndexFile, IndexMapping(df, table_df, detail_df), "manifest",
               "stats")
  /\ UNCHANGED << inputs, output_dir, entropy, called, df, table_df,
                  detail_df, result, skipped >>

\* Lines 152-158
ReturnValue ==
  [k \in {"table_file", "detail_file", "table_compressed",
          "detail_compressed", "index_file"} |->
     CASE k = "table_file" -> TableFile
       [] k = "detail_file" -> DetailFile
       [] k = "table_compressed" -> TableGz
       [] k = "detail_compressed" -> DetailGz
       [] k = "index_file" -> IndexFile]

\* Lines 141-158 and 175-185: the size statistics (three stat() calls),
\* the return value, and main()'s return of 0; an exception gives 1.
Stats ==
  /\ pc = "stats"
  /\ \/ /\ result' = ReturnValue
        /\ pc' = "exit"
        /\ exitCode' = 0
        /\ failedAt' = failedAt
        /\ history' = Append(history,
                             [exit |-> 0,
                              row_ids |-> RowIds(detail_df),
                              row_id_mapping |-> index_mapping.row_id_mapping])
     \/ /\ result' = result
        /\ Aborted("stats")
  /\ UNCHANGED << inputs, output_dir, files, entropy, called, df, table_df,
                  detail_df, index_mapping, written, skipped >>

\* The command is run again on the same arguments, in a new process.
Rerun ==
  /\ pc = "exit"
  /\ Len(history) < MaxRuns
  /\ entropy' \in Seeds
  /\ pc' = "main"
  /\ called' = FALSE
  /\ df' = EmptyFrame
  /\ table_df' = EmptyFrame
  /\ detail_df' = EmptyFrame
  /\ index_mapping' = NoManifest
  /\ result' = NoResult
  /\ written' = << >>
  /\ failedAt' = "none"
  /\ skipped' = FALSE
  /\ exitCode' = -1
  /\ UNCHANGED << inputs, output_dir, files, history >>

Next ==
  \/ Main
  \/ Read
  \/ Mkdir
  \/ WriteTable
  \/ WriteDetail
  \/ GzipTable
  \/ GzipDetail
  \/ ParquetTable
  \/ ParquetDetail
  \/ WriteManifest
  \/ Stats
  \/ Rerun

Spec == Init /\ [][Next]_vars


\* =================================================================== claims
N == Len(input_file.records)
Wrote(f) == f \in Range(written)
Completed == pc = "exit" /\ exitCode = 0
IndexOf(seq, x) == CHOOSE k \in 1..Len(seq) : seq[k] = x
Field(csv, i, col) == csv.records[i][IndexOf(csv.header, col)]
IsPrefix(s, t) == Len(s) <= Len(t) /\ SubSeq(t, 1, Len(s)) = s
StringForm(cell) == IF cell.na THEN << "n", "a", "n" >> ELSE cell.str
BoundedCols == {"property_description", "evidence"}
LimitOf(col) ==
  IF col = "evidence" THEN EvidenceLimit ELSE PropertyDescriptionLimit
TableOut == files[TableFile].body
DetailOut == files[DetailFile].body
ManifestOut == files[IndexFile].body

\* C1: in a completed run with a non-negative cap, the detail output has N
\* rows and row_id_mapping is null when N <= cap; it has cap rows and
\* row_id_mapping lists cap entries of 0..N-1 when N > cap; detail_rows is
\* the detail row count either way.
C1_DetailCount ==
  (Completed /\ max_detail_rows >= 0) =>
    /\ ManifestOut.detail_rows = Len(DetailOut.records)
    /\ (N <= max_detail_rows) =>
         /\ Len(DetailOut.records) = N
         /\ ManifestOut.row_id_mapping = JsonNull
    /\ (N > max_detail_rows) =>
         /\ Len(DetailOut.records) = max_detail_rows
         /\ ~ManifestOut.row_id_mapping.null
         /\ Len(ManifestOut.row_id_mapping.list) = max_detail_rows
         /\ \A k \in 1..max_detail_rows :
              ManifestOut.row_id_mapping.list[k] \in 0..(N - 1)

C1_Witness ==
  /\ Completed
  /\ N > max_detail_rows
  /\ max_detail_rows >= 2
  /\ Len(ManifestOut.row_id_mapping.list) = max_detail_rows

\* C2: the table output has one record per input record, in input order,
\* never sampled; record i carries row_id i (zero-based); the manifest
\* reports table_rows = total_rows = N.
C2_TableRows ==
  /\ Wrote(TableFile) =>
       /\ Len(TableOut.records) = N
       /\ \A i \in 1..N :
            /\ Field(TableOut, i, "row_id") = i - 1
            /\ \A c \in Range(TableOut.header) \ (BoundedCols \cup {"row_id"}) :
                 Field(TableOut, i, c) = input_file.records[i][c]
  /\ Wrote(IndexFile) =>
       /\ ManifestOut.table_rows = N
       /\ ManifestOut.total_rows = N

C2_Witness ==
  /\ Wrote(TableFile)
  /\ Wrote(IndexFile)
  /\ N >= 3
  /\ max_detail_rows \in 0..(N - 1)
  /\ Len(TableOut.records) = N

\* C3: in the table output property_description has at most 500 and
\* evidence at most 300 characters, each a prefix of the string form of the
\* input value; the detail output carries the input values of these columns
\* unchanged.
C3_Truncation ==
  /\ Wrote(TableFile) =>
       \A i \in 1..Len(TableOut.records) :
         \A c \in BoundedCols \cap Range(TableOut.header) :
           /\ ~Field(TableOut, i, c).na
           /\ Len(Field(TableOut, i, c).str) <= LimitOf(c)
           /\ IsPrefix(Field(TableOut, i, c).str,
                       StringForm(input_file.records[i][c]))
  /\ Wrote(DetailFile) =>
       \A j \in 1..Len(DetailOut.records) :
         \A c \in BoundedCols \cap Range(DetailOut.header) :
           Field(DetailOut, j, c) =
             input_file.records[Field(DetailOut, j, "row_id") + 1][c]

C3_Witness ==
  /\ Wrote(TableFile)
  /\ Wrote(DetailFile)
  /\ \E i \in 1..Len(TableOut.records) :
       /\ "property_description" \in Range(TableOut.header)
       /\ Len(input_file.records[i]["property_description"].str)
            > PropertyDescriptionLimit
       /\ Len(Field(TableOut, i, "property_description").str)
            = PropertyDescriptionLimit
       /\ Len(input_file.records[i]["evidence"].str) > EvidenceLimit
       /\ Len(Field(TableOut, i, "evidence").str) = EvidenceLimit
  /\ \E j \in 1..Len(DetailOut.records) :
       /\ "property_description" \in Range(DetailOut.header)
       /\ Len(Field(DetailOut, j, "property_description").str)
            > PropertyDescriptionLimit

\* C4: with the input path missing, main returns 1 without calling
\* optimize_csv_data, and no step changes the output directory or a file.
C4_MissingInput ==
  [][ ~input_file.exists =>
        /\ called' = FALSE
        /\ output_dir' = output_dir
        /\ files' = files
        /\ (pc' = "exit" => exitCode' = 1) ]_vars

C4_Witness ==
  /\ ~input_file.exists
  /\ pc = "exit"
  /\ exitCode = 1
  /\ output_dir = "absent"
  /\ ~called

\* C5: main returns 0 exactly when optimize_csv_data returned its value, and
\* 1 exactly when the input is missing or a step raised; there is no other
\* exit code.
C5_ExitCode ==
  /\ pc # "exit" => exitCode = -1
  /\ pc = "exit" =>
       /\ exitCode \in {0, 1}
       /\ exitCode = 0 <=> result = ReturnValue
       /\ exitCode = 0 <=> (called /\ failedAt = "none")
       /\ exitCode = 1 <=> (~input_file.exists \/ failedAt # "none")

C5_Witness ==
  /\ pc = "exit"
  /\ exitCode = 1
  /\ failedAt = "manifest"
  /\ Wrote(DetailGz)


\* C6 (as claimed): once the directory step has run on a path that did not
\* exist, with or without its parent, the directory exists and the run has
\* gone on to the writes.
C6_DirCreated ==
  (called /\ output_dir \in {"absent", "orphan"}) =>
    (pc \in {"read", "mkdir"} \/ failedAt = "read")

ParquetSteps == {"table_parquet", "detail_parquet"}
FourFiles == {TableFile, DetailFile, TableGz, DetailGz}

\* C7 (as claimed): a run that reached the Parquet step and failed nowhere
\* else has written the manifest, whatever happened in the Parquet step.
C7_ParquetNeverPrevents ==
  (pc = "exit" /\ FourFiles \subseteq Range(written)
     /\ failedAt \notin {"manifest", "stats"}) =>
    Wrote(IndexFile)

\* C7 (amended): an ImportError in the Parquet step skips the step: the run
\* goes on to the manifest, and if no later step raises it returns the five
\* paths, main exits 0 and no Parquet file was written; any other exception
\* of the Parquet step reaches main: no manifest, exit 1.
C7_ImportErrorSkips ==
  /\ skipped =>
       /\ ~pyarrow
       /\ pc \in {"manifest", "stats", "exit"}
       /\ failedAt \in {"none", "manifest", "stats"}
       /\ ~Wrote(TableParquet) /\ ~Wrote(DetailParquet)
  /\ (skipped /\ pc = "exit" /\ failedAt = "none") =>
       /\ Wrote(IndexFile)
       /\ files[IndexFile].state = "written"
       /\ result = ReturnValue
       /\ { result[k] : k \in DOMAIN result } = FourFiles \cup {IndexFile}
       /\ exitCode = 0
  /\ (~pyarrow /\ FourFiles \subseteq Range(written)
        /\ pc \notin {"table_parquet", "detail_parquet"}) => skipped
  /\ failedAt \in ParquetSteps =>
       /\ pyarrow
       /\ ~skipped
       /\ ~Wrote(IndexFile)
       /\ exitCode = 1

C7_Witness ==
  /\ skipped
  /\ pc = "exit"
  /\ exitCode = 0
  /\ Wrote(IndexFile)
  /\ result = ReturnValue

\* C8: any two completed runs on the same input and cap kept the same
\* detail row identifiers, in the same order, and wrote the same
\* row_id_mapping, whatever the process-global generator state was.
C8_Deterministic ==
  \A i, j \in 1..Len(history) :
    (history[i].exit = 0 /\ history[j].exit = 0) =>
      /\ history[i].row_ids = history[j].row_ids
      /\ history[i].row_id_mapping = history[j].row_id_mapping

C8_Witness ==
  /\ Len(history) >= 2
  /\ history[1].exit = 0
  /\ history[2].exit = 0
  /\ ~history[2].row_id_mapping.null
  /\ Len(history[2].row_id_mapping.list) >= 2
  /\ Len(history[2].row_id_mapping.list) < N

\* The fixed order of the writes
WriteOrder ==
  << TableFile, DetailFile, TableGz, DetailGz, TableParquet, DetailParquet,
     IndexFile >>
StepOrder ==
  << "read", "mkdir", "table", "detail", "table_gz", "detail_gz",
     "table_parquet", "detail_parquet", "manifest", "stats" >>
FileOfStep(step) ==
  CASE step = "table" -> TableFile
    [] step = "detail" -> DetailFile
    [] step = "table_gz" -> TableGz
    [] step = "detail_gz" -> DetailGz
    [] step = "table_parquet" -> TableParquet
    [] step = "detail_parquet" -> DetailParquet
    [] step = "manifest" -> IndexFile
WritingSteps == {"table", "detail", "table_gz", "detail_gz", "table_parquet",
                 "detail_parquet", "manifest"}

\* C9: the files are written in the fixed order and never rolled back: the
\* files a run has written are in write order, a written manifest implies
\* the four CSV and gzip files, every written file is still there with what
\* was written; and when a step's exception ends the run, the files of all
\* earlier steps are written, no file of that or a later step is, and main
\* exits 1.
C9_OrderNoRollback ==
  /\ \A i, j \in 1..Len(written) :
       i < j => IndexOf(WriteOrder, written[i]) < IndexOf(WriteOrder, written[j])
  /\ Wrote(IndexFile) => FourFiles \subseteq Range(written)
  /\ \A f \in Range(written) : files[f].state = "written"
  /\ failedAt # "none" =>
       /\ pc = "exit"
       /\ exitCode = 1
       /\ \A s \in WritingSteps :
            /\ (IndexOf(StepOrder, s) < IndexOf(StepOrder, failedAt)
                  /\ s \notin ParquetSteps) => Wrote(FileOfStep(s))
            /\ IndexOf(StepOrder, s) >= IndexOf(StepOrder, failedAt)
                 => ~Wrote(FileOfStep(s))

C9_Witness ==
  /\ pc = "exit"
  /\ exitCode = 1
  /\ failedAt = "detail_gz"
  /\ written = << TableFile, DetailFile, TableGz >>
  /\ files[TableGz].state = "written"
  /\ files[DetailGz].state = "partial"

\* C10: the row_ids of the detail output are pairwise distinct, each is the
\* zero-based input position of the record whose values the detail record
\* carries, each is the row_id of exactly one table record, built from the
\* same input record; row_id_mapping, when a list, is the detail row_ids.
C10_RowIdJoin ==
  /\ Wrote(DetailFile) =>
       /\ \A j, k \in 1..Len(DetailOut.records) :
            j # k => Field(DetailOut, j, "row_id") # Field(DetailOut, k, "row_id")
       /\ \A j \in 1..Len(DetailOut.records) :
            LET id == Field(DetailOut, j, "row_id")
            IN /\ id \in 0..(N - 1)
               /\ \A c \in Range(DetailOut.header) \ {"row_id"} :
                    Field(DetailOut, j, c) = input_file.records[id + 1][c]
               /\ Cardinality({ i \in 1..Len(TableOut.records) :
                                  Field(TableOut, i, "row_id") = id }) = 1
               /\ \A c \in Range(TableOut.header) \ (BoundedCols \cup {"row_id"}) :
                    Field(TableOut, id + 1, c) = Field(DetailOut, j, c)
  /\ (Wrote(IndexFile) /\ ~ManifestOut.row_id_mapping.null) =>
       ManifestOut.row_id_mapping.list =
         [j \in 1..Len(DetailOut.records) |-> Field(DetailOut, j, "row_id")]

C10_Witness ==
  /\ Completed
  /\ ~ManifestOut.row_id_mapping.null
  /\ Len(DetailOut.records) >= 2
  /\ \E j \in 1..Len(DetailOut.records) : Field(DetailOut, j, "row_id") # j - 1

====
